---- MODULE Spec2Model ----
(***************************************************************************)
(* Model of autosuggest.py: the interactive Google autocomplete tool.      *)
(*                                                                         *)
(* A Python str is a sequence of characters; a character is a one-token    *)
(* string.  Hebrew letters are written as named tokens ("he_shin", ...).   *)
(* The terminal is the sequence `out` of lines written to stdout, each a   *)
(* record whose field t names the print statement that produced it.        *)
(***************************************************************************)
EXTENDS Integers, Sequences, FiniteSets, TLC

\* ------------------------------------------------------------------ bounds
MaxInputs == 4        \* input() calls answered on an interactive terminal
MaxSuggestions == 2   \* length of a suggestion list in a response
MaxQueries == 1       \* keywords searched in one run

\* ----------------------------------------------------------------- strings
s_empty == << >>
s_quit == <<"q", "u", "i", "t">>
s_exit == <<"e", "x", "i", "t">>
s_q == <<"q">>
s_lang == <<"l", "a", "n", "g">>
s_n == <<"n">>
s_no == <<"n", "o">>
s_y == <<"y">>
s_cat == <<"c", "a", "t">>
s_cats == <<"c", "a", "t", "s">>
s_1 == <<"1">>
s_2 == <<"2">>
s_3 == <<"3">>
\* "shalom" and "shalom olam" in Hebrew letters
s_shalom == <<"he_shin", "he_lamed", "he_vav", "he_finalmem">>
s_shalom_olam == <<"he_shin", "he_lamed", "he_vav", "he_finalmem", " ",
                   "he_ayin", "he_vav", "he_lamed", "he_finalmem">>

Whitespace == {" ", "\t"}
HebrewLetters == {"he_shin", "he_lamed", "he_vav", "he_finalmem", "he_ayin"}
ArabicLetters == {"ar_ba"}
UpperLower == {<<"Q", "q">>, <<"U", "u">>, <<"I", "i">>, <<"T", "t">>,
               <<"E", "e">>, <<"X", "x">>, <<"L", "l">>, <<"A", "a">>,
               <<"N", "n">>, <<"G", "g">>, <<"O", "o">>, <<"Y", "y">>,
               <<"C", "c">>}

\* str.lower() / str.upper() on one character
LowerChar(c) ==
    IF \E p \in UpperLower : p[1] = c
    THEN (CHOOSE p \in UpperLower : p[1] = c)[2]
    ELSE c

UpperChar(c) ==
    IF \E p \in UpperLower : p[2] = c
    THEN (CHOOSE p \in UpperLower : p[2] = c)[1]
    ELSE c

\* The string compared as typed, without str.lower()
LowerAsTyped(s) == s

\* str.lower()
Lower(s) == [i \in 1..Len(s) |-> LowerChar(s[i])]

Upper(s) == [i \in 1..Len(s) |-> UpperChar(s[i])]

RECURSIVE LStrip(_)
LStrip(s) ==
    IF s # << >> /\ Head(s) \in Whitespace THEN LStrip(Tail(s)) ELSE s

RECURSIVE RStrip(_)
RStrip(s) ==
    IF s # << >> /\ s[Len(s)] \in Whitespace
    THEN RStrip(SubSeq(s, 1, Len(s) - 1))
    ELSE s

\* Strip that removes blanks only: " " but not "\t"
StripBlanks(s) ==
    LET first == {i \in 1..Len(s) : s[i] # " "}
    IN  IF first = {} THEN << >>
        ELSE SubSeq(s, CHOOSE i \in first : \A j \in first : i <= j,
                       CHOOSE i \in first : \A j \in first : i >= j)

\* str.strip(): leading and trailing whitespace removed, inner kept
Strip(s) == RStrip(LStrip(s))

Reverse(s) == [i \in 1..Len(s) |-> s[Len(s) + 1 - i]]

RECURSIVE Concat(_)
Concat(ss) == IF ss = << >> THEN << >> ELSE Head(ss) \o Concat(Tail(ss))

\* One line written to stdout.  t names the print statement, text is the
\* string interpolated into it, n the number interpolated into it, detail
\* the exception shown by "{e}".
Msg(t, text, n, detail) == [t |-> t, text |-> text, n |-> n, detail |-> detail]

Line(t) == Msg(t, << >>, 0, "")

\* ---------------------------------------------------- configuration loader
Entry(key, code, name, rtl) ==
    [key |-> key, code |-> code, name |-> name, rtl |-> rtl]

\* default_config['languages'], in insertion order
default_config == <<Entry(s_1, "en", "English", FALSE),
                    Entry(s_2, "he", "Hebrew", TRUE)>>

\* Another table a user may have put into language_config.json
OtherTable == <<Entry(s_1, "ar", "Arabic", TRUE),
                Entry(s_2, "he", "Hebrew", TRUE),
                Entry(s_3, "fr", "French", FALSE)>>

Tables == {default_config, OtherTable}

\* The text of a JSON file, as the document it holds.  An object is the
\* sequence of its members (name, value) in file order; a member name is
\* written as one token ("1" for the one-character string 1); true and
\* false are the words of JSON, not the booleans of Python.
JMember(name, value) == [name |-> name, value |-> value]
JObjectOf(members) == [t |-> "object", v |-> members]
JWord(w) == [t |-> "word", v |-> w]
JText(s) == [t |-> "string", v |-> s]

\* language_config.json as the program writes it when the file is missing
DefaultDocument ==
    JObjectOf(<<JMember("languages", JObjectOf(<<
        JMember("1", JObjectOf(<<JMember("code", JText("en")),
                                 JMember("name", JText("English")),
                                 JMember("rtl", JWord("false"))>>)),
        JMember("2", JObjectOf(<<JMember("code", JText("he")),
                                 JMember("name", JText("Hebrew")),
                                 JMember("rtl", JWord("true"))>>))>>))>>)

\* language_config.json as a user may have written it
OtherDocument ==
    JObjectOf(<<JMember("languages", JObjectOf(<<
        JMember("1", JObjectOf(<<JMember("code", JText("ar")),
                                 JMember("name", JText("Arabic")),
                                 JMember("rtl", JWord("true"))>>)),
        JMember("2", JObjectOf(<<JMember("code", JText("he")),
                                 JMember("name", JText("Hebrew")),
                                 JMember("rtl", JWord("true"))>>)),
        JMember("3", JObjectOf(<<JMember("code", JText("fr")),
                                 JMember("name", JText("French")),
                                 JMember("rtl", JWord("false"))>>))>>))>>)

\* The file language_config.json: absent, a JSON document, or text that is
\* not JSON.
File(kind, text) == [kind |-> kind, text |-> text]

FileAbsent == File("absent", << >>)

FileStates == {FileAbsent, File("not_json", << >>),
               File("json", DefaultDocument), File("json", OtherDocument)}

\* The selection keys and the tokens that stand for them in a document
KeyTokens == {<<s_1, "1">>, <<s_2, "2">>, <<s_3, "3">>}

TokenOf(key) == (CHOOSE p \in KeyTokens : p[1] = key)[2]

KeyOfToken(token) == (CHOOSE p \in KeyTokens : p[2] = token)[1]

\* json.dump of a configuration {'languages': table}: a dict becomes an
\* object with its keys as member names, a str a string, False and True
\* the words false and true.
json_dump_entry(e) ==
    JObjectOf(<<JMember("code", JText(e.code)),
                JMember("name", JText(e.name)),
                JMember("rtl", JWord(IF e.rtl THEN "true" ELSE "false"))>>)

json_dump(table) ==
    JObjectOf(<<JMember("languages",
                        JObjectOf([i \in 1..Len(table) |->
                                     JMember(TokenOf(table[i].key),
                                             json_dump_entry(table[i]))]))>>)

\* The value of the member `name` of an object
Member(obj, name) ==
    obj.v[CHOOSE i \in 1..Len(obj.v) : obj.v[i].name = name].value

HasMember(obj, name) == \E i \in 1..Len(obj.v) : obj.v[i].name = name

\* json.load of a document, then config['languages'] (line 117): the table,
\* each object a dict keyed by its member names, the words true and false
\* the booleans
json_load_entry(m) ==
    Entry(KeyOfToken(m.name), Member(m.value, "code").v,
          Member(m.value, "name").v,
          Member(m.value, "rtl").v = "true")

json_load(doc) ==
    LET langs == Member(doc, "languages")
    IN  [i \in 1..Len(langs.v) |-> json_load_entry(langs.v[i])]

\* load_language_config with the file written without the 'languages'
\* wrapper: json.dump(default_config['languages'], f)
load_language_config_unwrapped(f) ==
    CASE f.kind = "absent" ->
            [exc |-> "none", languages |-> default_config,
             file |-> File("json", Member(json_dump(default_config), "languages")),
             wrote |-> TRUE]
      [] f.kind = "json" ->
            IF HasMember(f.text, "languages")
            THEN [exc |-> "none", languages |-> json_load(f.text), file |-> f,
                  wrote |-> FALSE]
            ELSE [exc |-> "KeyError", languages |-> << >>, file |-> f,
                  wrote |-> FALSE]
      [] OTHER ->
            [exc |-> "JSONDecodeError", languages |-> << >>, file |-> f,
             wrote |-> FALSE]

\* load_language_config writing the defaults whatever it finds
load_language_config_rewrites(f) ==
    CASE f.kind \in {"absent", "json"} ->
            [exc |-> "none", languages |-> default_config,
             file |-> File("json", json_dump(default_config)), wrote |-> TRUE]
      [] OTHER ->
            [exc |-> "JSONDecodeError", languages |-> << >>, file |-> f,
             wrote |-> FALSE]

\* load_language_config falling back on the defaults when the file does not
\* parse
load_language_config_recovers(f) ==
    CASE f.kind = "json" ->
            IF HasMember(f.text, "languages")
            THEN [exc |-> "none", languages |-> json_load(f.text),
                  file |-> f, wrote |-> FALSE]
            ELSE [exc |-> "KeyError", languages |-> << >>,
                  file |-> f, wrote |-> FALSE]
      [] OTHER ->
            [exc |-> "none", languages |-> default_config,
             file |-> File("json", json_dump(default_config)), wrote |-> TRUE]

\* load_language_config(), with config['languages'] of line 117: the
\* exception raised ("none" when it returns), the 'languages' table of the
\* configuration returned, the file left behind, and whether the file was
\* written.
load_language_config(f) ==
    CASE f.kind = "absent" ->
            [exc |-> "none", languages |-> default_config,
             file |-> File("json", json_dump(default_config)), wrote |-> TRUE]
      [] f.kind = "json" ->
            IF HasMember(f.text, "languages")
            THEN [exc |-> "none", languages |-> json_load(f.text), file |-> f,
                  wrote |-> FALSE]
            ELSE [exc |-> "KeyError", languages |-> << >>, file |-> f,
                  wrote |-> FALSE]
      [] OTHER ->
            [exc |-> "JSONDecodeError", languages |-> << >>, file |-> f,
             wrote |-> FALSE]

\* --------------------------------------------------- text direction
\* arabic_reshaper.reshape on one character: Arabic letters are replaced by
\* a presentation form, every other character is kept.
ReshapeChar(c) == IF c \in ArabicLetters THEN "ar_ba_isolated" ELSE c

Reshape(s) == [i \in 1..Len(s) |-> ReshapeChar(s[i])]

HasRtl(s) == \E i \in 1..Len(s) : s[i] \in HebrewLetters \cup {"ar_ba_isolated"}

\* bidi.algorithm.get_display, for the strings of this model: a string of
\* right-to-left letters and spaces is one right-to-left run and comes out
\* reversed; a string without right-to-left letters is unchanged.
get_display(s) == IF HasRtl(s) THEN Reverse(s) ELSE s

\* process_rtl_text returning the reshaped text without get_display
process_rtl_text_reshape_only(text, is_rtl) ==
    IF is_rtl THEN Reshape(text) ELSE text

process_rtl_text(text, is_rtl) ==
    IF is_rtl THEN get_display(Reshape(text)) ELSE text

\* ------------------------------------------------------- suggestion fetcher
\* A JSON value, which json.loads turns into the Python value of the same
\* shape: array -> list, string -> str, number -> int, null -> None,
\* object -> dict.  v holds the elements, the characters or the number.
JArray(elems) == [t |-> "array", v |-> elems]
JString(chars) == [t |-> "string", v |-> chars]
JNumber(n) == [t |-> "number", v |-> n]
JNull == [t |-> "null", v |-> 0]
JObject == [t |-> "object", v |-> 0]

EmptyList == JArray(<< >>)

SuggestionStrings == {s_cats, s_shalom_olam}

\* Suggestion lists of up to MaxSuggestions strings: the two strings in
\* turn, starting with either
Alternating(first, n) ==
    [i \in 1..n |-> JString(IF (i % 2 = 1) = first THEN s_cats ELSE s_shalom_olam)]

SuggestionLists ==
    {JArray(Alternating(first, n)) : first \in BOOLEAN, n \in 0..MaxSuggestions}

\* Response bodies: text that is not JSON, or a JSON document.
Body(is_json, value) == [is_json |-> is_json, value |-> value]

NotJson == Body(FALSE, JNull)

\* The documents an upstream may send for the query k
Documents(k) ==
    {JArray(<<JString(k), l>>) : l \in SuggestionLists}
    \cup {JArray(<<JString(k), JArray(<<JString(s_cats)>>), JObject>>),
          JArray(<<JString(k), JNumber(5)>>),
          JArray(<<JString(k), JNull>>),
          JArray(<<JString(k), JString(s_cat)>>),
          JArray(<<JString(k)>>),
          JArray(<< >>),
          JString(s_cat), JString(s_q),
          JObject, JNumber(5), JNull}

\* What requests.get(url, timeout=10) does: raises, or returns a response
\* with a status code and a body.
Raises(exc) == [k |-> "exc", exc |-> exc, status |-> 0, body |-> NotJson]

Response(status, body) ==
    [k |-> "response", exc |-> "none", status |-> status, body |-> body]

TransportErrors == {"ConnectTimeout", "ReadTimeout", "ConnectionError"}

Outcomes(k) ==
    {Raises(e) : e \in TransportErrors}
    \cup {Response(st, NotJson) : st \in {200, 404}}
    \cup {Response(200, Body(TRUE, d)) : d \in Documents(k)}

\* The classes an exception is an instance of
Classes(exc) ==
    CASE exc = "ConnectTimeout" ->
            {"ConnectTimeout", "ConnectionError", "Timeout", "RequestException"}
      [] exc = "ReadTimeout" -> {"ReadTimeout", "Timeout", "RequestException"}
      [] exc = "ConnectionError" -> {"ConnectionError", "RequestException"}
      [] exc = "TooManyRedirects" -> {"TooManyRedirects", "RequestException"}
      [] exc = "HTTPError" -> {"HTTPError", "RequestException"}
      [] exc = "JSONDecodeError" -> {"JSONDecodeError", "ValueError"}
      [] exc = "IndexError" -> {"IndexError", "LookupError"}
      [] exc = "KeyError" -> {"KeyError", "LookupError"}
      [] OTHER -> {exc}

\* urllib.parse.quote on one character: unreserved characters and "/" are
\* kept, every other character becomes the %XX of its UTF-8 bytes.
QuoteChar(c) ==
    CASE c = " " -> <<"%", "2", "0">>
      [] c = "\t" -> <<"%", "0", "9">>
      [] c = "he_shin" -> <<"%", "D", "7", "%", "A", "9">>
      [] c = "he_lamed" -> <<"%", "D", "7", "%", "9", "C">>
      [] c = "he_vav" -> <<"%", "D", "7", "%", "9", "5">>
      [] c = "he_finalmem" -> <<"%", "D", "7", "%", "9", "D">>
      [] c = "he_ayin" -> <<"%", "D", "7", "%", "A", "2">>
      [] OTHER -> <<c>>

quote(s) == Concat([i \in 1..Len(s) |-> QuoteChar(s[i])])

\* The query parameters of the URL of the GET request
Url(keyword, lang) == [q |-> quote(keyword), hl |-> lang]

\* A value or the exception raised instead of it
Ok(val) == [exc |-> "none", val |-> val]
Exc(e) == [exc |-> e, val |-> JNull]

\* response.raise_for_status()
raise_for_status(status) ==
    IF status >= 400 /\ status < 600 THEN Exc("HTTPError") ELSE Ok(JNull)

\* json.loads(response.text)
json_loads(body) == IF body.is_json THEN Ok(body.value) ELSE Exc("JSONDecodeError")

\* value[0] in Python: the first element instead of the second
Subscript0(value) ==
    CASE value.t = "array" ->
            IF Len(value.v) >= 1 THEN Ok(value.v[1]) ELSE Exc("IndexError")
      [] value.t = "string" ->
            IF Len(value.v) >= 1 THEN Ok(JString(<<value.v[1]>>))
            ELSE Exc("IndexError")
      [] value.t = "object" -> Exc("KeyError")
      [] OTHER -> Exc("TypeError")

\* value[1] in Python
Subscript1(value) ==
    CASE value.t = "array" ->
            IF Len(value.v) >= 2 THEN Ok(value.v[2]) ELSE Exc("IndexError")
      [] value.t = "string" ->
            IF Len(value.v) >= 2 THEN Ok(JString(<<value.v[2]>>))
            ELSE Exc("IndexError")
      [] value.t = "object" -> Exc("KeyError")
      [] OTHER -> Exc("TypeError")

\* The body of the try block of get_google_autocomplete
TryFetch(o) ==
    IF o.k = "exc" THEN Exc(o.exc)
    ELSE IF raise_for_status(o.status).exc # "none"
         THEN raise_for_status(o.status)
    ELSE IF json_loads(o.body).exc # "none" THEN json_loads(o.body)
    ELSE Subscript1(json_loads(o.body).val)

\* ExceptClauses with the generic clause ahead of the timeout clause
ExceptClausesGenericFirst ==
    <<[classes |-> {"RequestException"}, msg |-> "error_fetching:e"],
      [classes |-> {"Timeout"}, msg |-> "timed_out"],
      [classes |-> {"IndexError", "JSONDecodeError"}, msg |-> "unexpected_format"]>>

\* The except clauses of get_google_autocomplete, in source order
ExceptClauses ==
    <<[classes |-> {"Timeout"}, msg |-> "timed_out"],
      [classes |-> {"RequestException"}, msg |-> "error_fetching:e"],
      [classes |-> {"IndexError", "JSONDecodeError"}, msg |-> "unexpected_format"]>>

Catches(clause, exc) == Classes(exc) \cap clause.classes # {}

\* get_google_autocomplete(keyword, lang) when requests.get does o: the
\* exception that leaves the function ("none" when it returns), the value
\* returned and the lines printed.
get_google_autocomplete(o) ==
    LET r == TryFetch(o)
        matching == {i \in 1..Len(ExceptClauses) : Catches(ExceptClauses[i], r.exc)}
    IN  IF r.exc = "none" THEN [exc |-> "none", val |-> r.val, msgs |-> << >>]
        ELSE IF matching = {} THEN [exc |-> r.exc, val |-> JNull, msgs |-> << >>]
        ELSE LET first == CHOOSE i \in matching : \A j \in matching : i <= j
             IN  [exc |-> "none", val |-> EmptyList,
                  msgs |-> <<IF ExceptClauses[first].msg = "error_fetching:e"
                             THEN Msg("error_fetching", << >>, 0, r.exc)
                             ELSE Line(ExceptClauses[first].msg)>>]

\* ------------------------------------------------------ presentation layer
\* bool(value) is False
Falsy(value) ==
    \/ value.t = "null"
    \/ value.t = "number" /\ value.v = 0
    \/ value.t \in {"array", "string"} /\ value.v = << >>

\* iter(value): the items a for loop visits, or TypeError
Iterate(value) ==
    CASE value.t = "array" -> Ok(value.v)
      [] value.t = "string" -> Ok([i \in 1..Len(value.v) |-> JString(<<value.v[i]>>)])
      [] OTHER -> Exc("TypeError")

\* display_suggestions with enumerate(suggestions) counting from 0
display_suggestions_from_zero(keyword, suggestions, is_rtl) ==
    LET processed_keyword == process_rtl_text(keyword, is_rtl)
        head == <<Msg("header", processed_keyword, 0, ""),
                  Msg("rule", << >>, Len(processed_keyword) + 35, "")>>
        items == Iterate(suggestions)
    IN  IF Falsy(suggestions)
        THEN [exc |-> "none", msgs |-> head \o <<Line("no_suggestions")>>]
        ELSE IF items.exc # "none" THEN [exc |-> items.exc, msgs |-> head]
        ELSE [exc |-> "none",
              msgs |-> head
                       \o [i \in 1..Len(items.val) |->
                             Msg("suggestion",
                                 process_rtl_text(items.val[i].v, is_rtl),
                                 i - 1, "")]
                       \o <<Msg("count", << >>, Len(items.val), "")>>]

\* display_suggestions(keyword, suggestions, is_rtl): the lines printed and
\* the exception that ends it early ("none" when it returns).
display_suggestions(keyword, suggestions, is_rtl) ==
    LET processed_keyword == process_rtl_text(keyword, is_rtl)
        head == <<Msg("header", processed_keyword, 0, ""),
                  Msg("rule", << >>, Len(processed_keyword) + 35, "")>>
        items == Iterate(suggestions)
    IN  IF Falsy(suggestions)
        THEN [exc |-> "none", msgs |-> head \o <<Line("no_suggestions")>>]
        ELSE IF items.exc # "none" THEN [exc |-> items.exc, msgs |-> head]
        ELSE [exc |-> "none",
              msgs |-> head
                       \o [i \in 1..Len(items.val) |->
                             Msg("suggestion",
                                 process_rtl_text(items.val[i].v, is_rtl), i, "")]
                       \o <<Msg("count", << >>, Len(items.val), "")>>]

\* ------------------------------------------------------- language selection
\* The lines get_language_choice prints before its loop, and the prompt of
\* the first input()
Menu(table) ==
    <<Line("select_language")>>
    \o [i \in 1..Len(table) |-> Msg("menu_item", table[i].key, 0, table[i].code)]
    \o <<Line("choice_prompt")>>

\* LanguageChoice with the rtl flag read from the first entry of the table
LanguageChoiceFirstRtl(table, raw) ==
    LET choice == Strip(raw)
        hits == {i \in 1..Len(table) : table[i].key = choice}
    IN  IF choice = << >> THEN [returns |-> TRUE, code |-> "en", rtl |-> FALSE]
        ELSE IF hits # {}
        THEN LET lang_info == table[CHOOSE i \in hits : TRUE]
             IN  [returns |-> TRUE, code |-> lang_info.code, rtl |-> table[1].rtl]
        ELSE [returns |-> FALSE, code |-> "", rtl |-> FALSE]

\* LanguageChoice with a blank line selecting the first entry of the table
\* instead of English
LanguageChoiceFirstEntry(table, raw) ==
    LET choice == Strip(raw)
        hits == {i \in 1..Len(table) : table[i].key = choice}
    IN  IF choice = << >>
        THEN [returns |-> TRUE, code |-> table[1].code, rtl |-> table[1].rtl]
        ELSE IF hits # {}
        THEN LET lang_info == table[CHOOSE i \in hits : TRUE]
             IN  [returns |-> TRUE, code |-> lang_info.code, rtl |-> lang_info.rtl]
        ELSE [returns |-> FALSE, code |-> "", rtl |-> FALSE]

\* One pass of the while loop of get_language_choice on the line read:
\* whether the function returns, and the (code, rtl) pair it returns.
LanguageChoice(table, raw) ==
    LET choice == Strip(raw)
        hits == {i \in 1..Len(table) : table[i].key = choice}
    IN  IF choice = << >> THEN [returns |-> TRUE, code |-> "en", rtl |-> FALSE]
        ELSE IF hits # {}
        THEN LET lang_info == table[CHOOSE i \in hits : TRUE]
             IN  [returns |-> TRUE, code |-> lang_info.code, rtl |-> lang_info.rtl]
        ELSE [returns |-> FALSE, code |-> "", rtl |-> FALSE]

\* ------------------------------------------------------------------- input
Padded(w) == <<" ">> \o w \o <<"\t", " ">>

\* The lines a user may type at the selection prompt: nothing, blanks, the
\* keys, a key surrounded by blanks, and words that are no keys
ChoiceInputs ==
    {s_empty, <<" ", "\t">>, s_1, s_2, s_3, Padded(s_2), s_cat, s_quit}

\* The lines a user may type at the keyword prompt: nothing, blanks, the
\* commands (as they are, in capitals, surrounded by blanks) and keywords
KeywordInputs ==
    {s_empty, <<" ", "\t">>, s_quit, s_exit, s_q, s_lang}
    \cup {Upper(s_quit), Upper(s_exit), Upper(s_q), Upper(s_lang)}
    \cup {<<"Q", "u", "i", "T">>, Padded(s_q), Padded(s_lang)}
    \cup {s_cat, Padded(s_cat), s_shalom}

\* The lines a user may type at the continue prompt
ContinueInputs ==
    {s_empty, s_y, s_n, s_no, Upper(s_n), <<"N", "o">>, Padded(s_no), s_quit}

\* Piped standard input: the lines of the file, then end of file
Scripts == {<<s_empty, s_cat, s_quit>>,
            <<s_empty, s_cat, s_quit, s_quit>>,
            <<s_empty, s_cat, s_y, s_quit>>,
            <<s_2, s_shalom, s_n>>,
            <<s_1, s_cat, s_n>>}

Tty == [tty |-> TRUE, script |-> << >>, pos |-> 0]

Piped(script) == [tty |-> FALSE, script |-> script, pos |-> 0]

\* ------------------------------------------------------------------- state
VARIABLES
    pc,           \* where main() stands: "start", the input() it waits in
                  \* ("select_language", "main_loop", "change_language",
                  \* "prompt_continue"), "query" (inside requests.get), or
                  \* "terminated"
    lang,         \* main's lang; "" before the first assignment
    is_rtl,       \* main's is_rtl; FALSE before the first assignment
    languages,    \* get_language_choice's languages, as last loaded
    keyword,      \* main's keyword
    file,         \* language_config.json
    stdin,        \* standard input and the number of lines read from it
    line,         \* the line the last input() returned
    out,          \* the lines written to stdout
    calls,        \* the calls of get_google_autocomplete, and what each did
    displays,     \* the calls of display_suggestions
    exit_status,  \* the exit status of the process; -1 while it runs
    uncaught,     \* the exception that ended the process, or "none"
    interrupted,  \* a KeyboardInterrupt has been delivered
    writes,       \* the number of times the program wrote the file
    edited        \* the file was changed from outside since it was last loaded

vars == <<pc, lang, is_rtl, languages, keyword, file, stdin, line, out, calls,
          displays, exit_status, uncaught, interrupted, writes, edited>>

InputStates == {"select_language", "main_loop", "change_language",
                "prompt_continue"}

\* The states main() is in while inside its try block
TryBlock == {"main_loop", "change_language", "query", "prompt_continue"}

Init ==
    /\ pc = "start"
    /\ lang = ""
    /\ is_rtl = FALSE
    /\ languages = << >>
    /\ keyword = << >>
    /\ file \in FileStates
    /\ stdin \in {Tty} \cup {Piped(sc) : sc \in Scripts}
    /\ line = << >>
    /\ out = << >>
    /\ calls = << >>
    /\ displays = << >>
    /\ exit_status = -1
    /\ uncaught = "none"
    /\ interrupted = FALSE
    /\ writes = 0
    /\ edited = FALSE

\* input() returns the line raw: one of the lines typed at this prompt of
\* a terminal, or the next line of the piped file
Reads(raw, typed) ==
    /\ IF stdin.tty
       THEN raw \in typed /\ stdin.pos < MaxInputs
       ELSE stdin.pos < Len(stdin.script) /\ raw = stdin.script[stdin.pos + 1]
    /\ stdin' = [stdin EXCEPT !.pos = @ + 1]
    /\ line' = raw

AllInputs ==
    ChoiceInputs \cup KeywordInputs \cup ContinueInputs
    \cup UNION {{sc[i] : i \in 1..Len(sc)} : sc \in Scripts}

\* An exception leaves main(): traceback, exit status 1
Crash(exc, printed) ==
    /\ pc' = "terminated"
    /\ uncaught' = exc
    /\ exit_status' = 1
    /\ out' = out \o printed

\* main() returns: the interpreter exits with status 0
Return(printed) ==
    /\ pc' = "terminated"
    /\ exit_status' = 0
    /\ out' = out \o printed
    /\ UNCHANGED uncaught

\* The call of get_language_choice up to its first input()
EnterLanguageChoice(printed, next) ==
    LET r == load_language_config(file)
    IN  /\ file' = r.file
        /\ edited' = FALSE
        /\ writes' = writes + (IF r.wrote THEN 1 ELSE 0)
        /\ IF r.exc # "none"
           THEN /\ Crash(r.exc, printed)
                /\ UNCHANGED languages
           ELSE /\ languages' = r.languages
                /\ out' = out \o printed \o Menu(r.languages)
                /\ pc' = next
                /\ UNCHANGED <<uncaught, exit_status>>

KeywordPrompt == <<Line("separator"), Line("keyword_prompt")>>

\* main() from its first line to the first input() of get_language_choice
Start ==
    /\ pc = "start"
    /\ EnterLanguageChoice(<<Line("banner"), Line("banner_rule")>>,
                           "select_language")
    /\ UNCHANGED <<lang, is_rtl, keyword, stdin, line, calls, displays,
                   interrupted>>

\* The first language selection (line 143) answers, up to the next input()
InitialSelect ==
    /\ pc = "select_language"
    /\ \E raw \in AllInputs :
          /\ Reads(raw, ChoiceInputs)
          /\ LET c == LanguageChoice(languages, raw)
             IN  IF c.returns
                 THEN /\ lang' = c.code
                      /\ is_rtl' = c.rtl
                      /\ out' = out \o <<Msg("language_set", << >>, 0, c.code),
                                         Line("tips")>> \o KeywordPrompt
                      /\ pc' = "main_loop"
                 ELSE /\ out' = out \o <<Line("invalid_choice"),
                                         Line("choice_prompt")>>
                      /\ UNCHANGED <<lang, is_rtl, pc>>
    /\ UNCHANGED <<languages, keyword, file, calls, displays, exit_status,
                   uncaught, interrupted, writes, edited>>

\* ChangeSelect with the flag dropped: lang, _ = get_language_choice()
ChangeSelectKeepsFlag ==
    /\ pc = "change_language"
    /\ \E raw \in AllInputs :
          /\ Reads(raw, ChoiceInputs)
          /\ LET c == LanguageChoice(languages, raw)
             IN  IF c.returns
                 THEN /\ lang' = c.code
                      /\ out' = out \o <<Msg("language_changed", << >>, 0, c.code)>>
                                    \o KeywordPrompt
                      /\ pc' = "main_loop"
                 ELSE /\ out' = out \o <<Line("invalid_choice"),
                                         Line("choice_prompt")>>
                      /\ UNCHANGED <<lang, pc>>
    /\ UNCHANGED <<is_rtl, languages, keyword, file, calls, displays, exit_status,
                   uncaught, interrupted, writes, edited>>

\* The language selection started by 'lang' (line 163) answers
ChangeSelect ==
    /\ pc = "change_language"
    /\ \E raw \in AllInputs :
          /\ Reads(raw, ChoiceInputs)
          /\ LET c == LanguageChoice(languages, raw)
             IN  IF c.returns
                 THEN /\ lang' = c.code
                      /\ is_rtl' = c.rtl
                      /\ out' = out \o <<Msg("language_changed", << >>, 0, c.code)>>
                                    \o KeywordPrompt
                      /\ pc' = "main_loop"
                 ELSE /\ out' = out \o <<Line("invalid_choice"),
                                         Line("choice_prompt")>>
                      /\ UNCHANGED <<lang, is_rtl, pc>>
    /\ UNCHANGED <<languages, keyword, file, calls, displays, exit_status,
                   uncaught, interrupted, writes, edited>>

\* ExitWords without the one-letter form
ExitWordsLong == {s_quit, s_exit}

ExitWords == {s_quit, s_exit, s_q}

\* The keyword is none of the commands and not empty: it is searched
Searched(k) == Lower(k) \notin ExitWords \cup {s_lang} /\ k # << >>

\* One record of `calls`: the arguments, the URL parameters, the number of
\* HTTP requests sent (the requests.get of line 53 is under way when the
\* record is made), and (once the call has ended) what requests.get did and
\* what the call returned.
Call(k, l) ==
    [keyword |-> k, lang |-> l, url |-> Url(k, l), requests |-> 1,
     ended |-> FALSE, outcome |-> Raises("none"), exc |-> "none",
     val |-> JNull, msgs |-> << >>]

\* The keyword prompt (line 154) answers: lines 154-174 up to the next
\* input() or to requests.get
ReadKeyword ==
    /\ pc = "main_loop"
    /\ \E raw \in AllInputs :
          /\ Reads(raw, KeywordInputs)
          /\ keyword' = Strip(raw)
          /\ Searched(keyword') => Len(calls) < MaxQueries
          /\ IF Lower(keyword') \in ExitWords
             THEN /\ Return(<<Line("goodbye")>>)
                  /\ UNCHANGED <<languages, file, writes, calls, edited>>
             ELSE IF Lower(keyword') = s_lang
             THEN /\ EnterLanguageChoice(<< >>, "change_language")
                  /\ UNCHANGED calls
             ELSE IF keyword' = << >>
             THEN /\ out' = out \o <<Line("invalid_keyword")>> \o KeywordPrompt
                  /\ UNCHANGED <<pc, languages, file, writes, calls, uncaught,
                                 exit_status, edited>>
             ELSE /\ out' = out \o <<Msg("fetching",
                                         process_rtl_text(keyword', is_rtl), 0, "")>>
                  /\ calls' = Append(calls, Call(keyword', lang))
                  /\ pc' = "query"
                  /\ UNCHANGED <<languages, file, writes, uncaught, exit_status,
                                 edited>>
    /\ UNCHANGED <<lang, is_rtl, displays, interrupted>>

\* FetchReturn with a timed-out request sent a second time
FetchReturnRetries ==
    /\ pc = "query"
    /\ \E o \in Outcomes(keyword) :
          LET r == get_google_autocomplete(o)
              d == display_suggestions(keyword, r.val, is_rtl)
              n == Len(calls)
          IN  IF "Timeout" \in Classes(o.exc) /\ calls[n].requests < 2
              THEN /\ calls' = [calls EXCEPT ![n].requests = @ + 1]
                   /\ UNCHANGED <<pc, out, displays, uncaught, exit_status>>
              ELSE /\ calls' = [calls EXCEPT ![n] =
                                  [@ EXCEPT !.ended = TRUE, !.outcome = o,
                                            !.exc = r.exc, !.val = r.val,
                                            !.msgs = r.msgs]]
                   /\ IF r.exc # "none"
                      THEN /\ Crash(r.exc, r.msgs)
                           /\ UNCHANGED displays
                      ELSE /\ displays' = Append(displays,
                                                 [keyword |-> keyword,
                                                  suggestions |-> r.val,
                                                  is_rtl |-> is_rtl,
                                                  call |-> n])
                           /\ IF d.exc # "none"
                              THEN Crash(d.exc, r.msgs \o d.msgs)
                              ELSE /\ out' = out \o r.msgs \o d.msgs
                                                 \o <<Line("continue_prompt")>>
                                   /\ pc' = "prompt_continue"
                                   /\ UNCHANGED <<uncaught, exit_status>>
    /\ UNCHANGED <<lang, is_rtl, languages, keyword, file, stdin, line,
                   interrupted, writes, edited>>

\* requests.get ends (lines 53-68), then lines 175-178 up to the input() of
\* the continue prompt
FetchReturn ==
    /\ pc = "query"
    /\ \E o \in Outcomes(keyword) :
          LET r == get_google_autocomplete(o)
              d == display_suggestions(keyword, r.val, is_rtl)
              n == Len(calls)
          IN  /\ calls' = [calls EXCEPT ![n] =
                             [@ EXCEPT !.ended = TRUE, !.outcome = o,
                                       !.exc = r.exc, !.val = r.val,
                                       !.msgs = r.msgs]]
              /\ IF r.exc # "none"
                 THEN /\ Crash(r.exc, r.msgs)
                      /\ UNCHANGED displays
                 ELSE /\ displays' = Append(displays,
                                            [keyword |-> keyword,
                                             suggestions |-> r.val,
                                             is_rtl |-> is_rtl,
                                             call |-> n])
                      /\ IF d.exc # "none"
                         THEN Crash(d.exc, r.msgs \o d.msgs)
                         ELSE /\ out' = out \o r.msgs \o d.msgs
                                            \o <<Line("continue_prompt")>>
                              /\ pc' = "prompt_continue"
                              /\ UNCHANGED <<uncaught, exit_status>>
    /\ UNCHANGED <<lang, is_rtl, languages, keyword, file, stdin, line,
                   interrupted, writes, edited>>

\* ContinueNo with the exit words of the keyword prompt added
ContinueNoOrExit == {s_n, s_no, s_quit, s_exit, s_q}

ContinueNo == {s_n, s_no}

\* AnswerContinue with the language reset to English when the loop goes on
AnswerContinueResets ==
    /\ pc = "prompt_continue"
    /\ \E raw \in AllInputs :
          /\ Reads(raw, ContinueInputs)
          /\ LET continue_choice == Lower(Strip(raw))
             IN  IF continue_choice \in {s_n, s_no}
                 THEN /\ Return(<<Line("thanks")>>)
                      /\ UNCHANGED <<lang, is_rtl>>
                 ELSE /\ out' = out \o KeywordPrompt
                      /\ pc' = "main_loop"
                      /\ lang' = "en"
                      /\ is_rtl' = FALSE
                      /\ UNCHANGED <<uncaught, exit_status>>
    /\ UNCHANGED <<languages, keyword, file, calls, displays, interrupted,
                   writes, edited>>

\* The continue prompt (line 178) answers
AnswerContinue ==
    /\ pc = "prompt_continue"
    /\ \E raw \in AllInputs :
          /\ Reads(raw, ContinueInputs)
          /\ LET continue_choice == Lower(Strip(raw))
             IN  IF continue_choice \in ContinueNo
                 THEN Return(<<Line("thanks")>>)
                 ELSE /\ out' = out \o KeywordPrompt
                      /\ pc' = "main_loop"
                      /\ UNCHANGED <<uncaught, exit_status>>
    /\ UNCHANGED <<lang, is_rtl, languages, keyword, file, calls, displays,
                   interrupted, writes, edited>>

\* Ctrl+C while main() waits for a line or for the response:
\* KeyboardInterrupt is raised there.  Inside the try block the handler of
\* lines 183-185 runs; outside it the exception leaves main() and the
\* interpreter dies of SIGINT (status 130 in a shell).
KeyboardInterrupt ==
    /\ pc \in InputStates \cup {"query"}
    /\ interrupted' = TRUE
    /\ pc' = "terminated"
    /\ IF pc \in TryBlock
       THEN /\ out' = out \o <<Line("exiting_goodbye")>>
            /\ exit_status' = 0
            /\ UNCHANGED uncaught
       ELSE /\ uncaught' = "KeyboardInterrupt"
            /\ exit_status' = 130
            /\ UNCHANGED out
    /\ UNCHANGED <<lang, is_rtl, languages, keyword, file, stdin, line, calls,
                   displays, writes, edited>>

\* input() at end of file: EOFError, which nothing catches
EndOfInput ==
    /\ pc \in InputStates
    /\ stdin.tty \/ stdin.pos >= Len(stdin.script)
    /\ Crash("EOFError", << >>)
    /\ UNCHANGED <<lang, is_rtl, languages, keyword, file, stdin, line, calls,
                   displays, interrupted, writes, edited>>

\* Someone else changes, replaces or removes language_config.json.  The
\* program looks at the file only when a language selection starts, so the
\* changes made between two selections amount to one change made at the
\* keyword prompt (or, before the first selection, to the initial content).
EditFile ==
    /\ pc = "main_loop"
    /\ ~edited
    /\ \E f \in FileStates \ {file} : file' = f
    /\ edited' = TRUE
    /\ UNCHANGED <<pc, lang, is_rtl, languages, keyword, stdin, line, out,
                   calls, displays, exit_status, uncaught, interrupted, writes>>

Next ==
    \/ Start
    \/ InitialSelect
    \/ ChangeSelect
    \/ ReadKeyword
    \/ FetchReturn
    \/ AnswerContinue
    \/ KeyboardInterrupt
    \/ EndOfInput
    \/ EditFile

Spec == Init /\ [][Next]_vars

TypeOK ==
    /\ pc \in InputStates \cup {"start", "query", "terminated"}
    /\ is_rtl \in BOOLEAN
    /\ exit_status \in {-1, 0, 1, 130}
    /\ file \in FileStates
    /\ writes \in 0..MaxInputs

\* ================================================================== claims
LastLine == IF out = << >> THEN "" ELSE out[Len(out)].t

Printed(t) == Len(SelectSeq(out, LAMBDA m : m.t = t))

\* The step is an input() returning a line at the prompt p
Answered(p) == pc = p /\ stdin'.pos = stdin.pos + 1

\* ---- C1 ----------------------------------------------------------------
\* C1: once a KeyboardInterrupt has been delivered, at whatever point of the
\* run, the program has terminated with exit status 0 and the goodbye
\* message of the interrupt handler as its last line.
C1_InterruptExitsCleanly ==
    interrupted =>
        /\ pc = "terminated"
        /\ exit_status = 0
        /\ uncaught = "none"
        /\ LastLine = "exiting_goodbye"

\* ---- C2 ----------------------------------------------------------------
CatScript == <<s_empty, s_cat, s_quit>>

OnCatScript == ~stdin.tty /\ stdin.script = CatScript

\* The texts of the suggestion lines on the terminal, in order
SuggestionTexts ==
    LET ls == SelectSeq(out, LAMBDA m : m.t = "suggestion")
    IN  [i \in 1..Len(ls) |-> ls[i].text]

\* The strings of a list of suggestions
Strings(list) == [i \in 1..Len(list.v) |-> list.v[i].v]

ReturnedList(c) == c.ended /\ c.exc = "none" /\ c.val \in SuggestionLists

\* C2 as stated: on ["", "cat", "quit"] the third line ends the program with
\* the farewell, and the continue prompt is never shown.
C2_QuitEndsTheCatScript ==
    OnCatScript /\ stdin.pos = 3 =>
        /\ pc = "terminated"
        /\ LastLine = "goodbye"
        /\ Printed("continue_prompt") = 0

\* C2 as amended: on ["", "cat", "quit"] the blank line binds ("en", not
\* RTL), the only fetch is of "cat" with lang "en", a returned list is
\* displayed string for string, and "quit" is read by the continue prompt,
\* which returns to the keyword prompt: no farewell is printed, and the
\* program ends only by the end of input or an interrupt.
C2_CatScriptEndToEnd ==
    OnCatScript =>
        /\ stdin.pos >= 1 => lang = "en" /\ ~is_rtl
        /\ Len(calls) = (IF stdin.pos >= 2 THEN 1 ELSE 0)
        /\ \A i \in 1..Len(calls) :
              /\ calls[i].keyword = s_cat
              /\ calls[i].lang = "en"
              /\ calls[i].url = [q |-> s_cat, hl |-> "en"]
              /\ ReturnedList(calls[i]) =>
                    /\ Len(displays) = 1
                    /\ SuggestionTexts = Strings(calls[i].val)
        /\ Printed("goodbye") = 0 /\ Printed("thanks") = 0
        /\ stdin.pos = 3 =>
              /\ Printed("continue_prompt") = 1
              /\ line = s_quit
              /\ \/ pc = "main_loop" /\ LastLine = "keyword_prompt"
                 \/ pc = "terminated" /\ (uncaught = "EOFError" \/ interrupted)

C2_Witness ==
    /\ OnCatScript
    /\ stdin.pos = 3
    /\ pc = "main_loop"
    /\ calls[1].val = JArray(<<JString(s_cats), JString(s_shalom_olam)>>)
    /\ Printed("suggestion") = 2

\* ---- C3 ----------------------------------------------------------------
\* A successful request whose body is not JSON, or is JSON without a second
\* array element
Malformed(o) ==
    /\ o.k = "response"
    /\ o.status = 200
    /\ \/ ~o.body.is_json
       \/ o.body.value.t # "array"
       \/ Len(o.body.value.v) < 2

\* C3: every call of get_google_autocomplete that met a malformed response
\* returned the empty list, printed the one 'unexpected response format'
\* line and raised nothing.
C3_MalformedIsRecovered ==
    \A i \in 1..Len(calls) :
        calls[i].ended /\ Malformed(calls[i].outcome) =>
            /\ calls[i].exc = "none"
            /\ calls[i].val = EmptyList
            /\ calls[i].msgs = <<Line("unexpected_format")>>

\* ---- C4 ----------------------------------------------------------------
TimedOut(o) == o \in {Raises("ConnectTimeout"), Raises("ReadTimeout")}

FailedOtherwise(o) ==
    \/ o = Raises("ConnectionError")
    \/ o.k = "response" /\ o.status \in {404, 500}

\* C4: a call that timed out returned the empty list and printed the
\* timeout line and nothing else; a call that failed in another way in the
\* transport returned the empty list and printed the generic error line and
\* nothing else; neither raised.
C4_TransportFailuresClassified ==
    \A i \in 1..Len(calls) :
        LET c == calls[i]
        IN  /\ c.ended /\ TimedOut(c.outcome) =>
                  /\ c.exc = "none"
                  /\ c.val = EmptyList
                  /\ Len(c.msgs) = 1 /\ c.msgs[1].t = "timed_out"
            /\ c.ended /\ FailedOtherwise(c.outcome) =>
                  /\ c.exc = "none"
                  /\ c.val = EmptyList
                  /\ Len(c.msgs) = 1 /\ c.msgs[1].t = "error_fetching"

\* A connect timeout (a connection error and a timeout at once) was
\* reported as a timeout, and the loop went on to the continue prompt
C4_Witness ==
    /\ pc = "prompt_continue"
    /\ calls # << >>
    /\ calls[Len(calls)].outcome = Raises("ConnectTimeout")
    /\ Printed("timed_out") = 1

\* ---- C5 ----------------------------------------------------------------
\* C5: every query that is not interrupted goes from the fetch to exactly
\* one display, made with the keyword and the bound right-to-left flag, and
\* then to the continue prompt.
C5_QueryRunsFetchDisplayPrompt ==
    [][pc = "query" /\ ~interrupted' =>
          /\ Len(displays') = Len(displays) + 1
          /\ displays'[Len(displays')].is_rtl = is_rtl
          /\ displays'[Len(displays')].keyword = keyword
          /\ pc' = "prompt_continue"
          /\ out'[Len(out')].t = "continue_prompt"]_vars

\* ---- C6 ----------------------------------------------------------------
\* The lines typed in this model that are "n" or "no" once trimmed and
\* case-folded
AnswersNo == {s_n, s_no, <<"N">>, <<"N", "o">>, <<" ", "n", "o", "\t", " ">>}

\* C6: an answer of the continue prompt that is "n" or "no" after trimming
\* and case-folding ends the program with the thank-you line and status 0;
\* every other answer, the exit words included, leads to the keyword prompt.
C6_ContinuePrompt ==
    [][Answered("prompt_continue") =>
          IF line' \in AnswersNo
          THEN /\ pc' = "terminated"
               /\ exit_status' = 0
               /\ out' = out \o <<Line("thanks")>>
          ELSE /\ pc' = "main_loop"
               /\ exit_status' = -1
               /\ out' = out \o <<Line("separator"), Line("keyword_prompt")>>]_vars

\* "quit" was the answer of the continue prompt, and the keyword prompt is up
C6_Witness ==
    /\ stdin.tty
    /\ pc = "main_loop"
    /\ line = s_quit
    /\ Len(displays) = 1

\* ---- C7 ----------------------------------------------------------------
\* The lines typed in this model that are an exit word once trimmed and
\* case-folded
ExitLines == {s_quit, s_exit, s_q, <<"Q", "U", "I", "T">>, <<"E", "X", "I", "T">>,
              <<"Q">>, <<"Q", "u", "i", "T">>, <<" ", "q", "\t", " ">>}

\* C7: a keyword that is "quit", "exit" or "q" after trimming and
\* case-folding ends the program with the farewell line and status 0, and
\* nothing is fetched, displayed or asked for it.
C7_ExitWords ==
    [][Answered("main_loop") /\ line' \in ExitLines =>
          /\ pc' = "terminated"
          /\ exit_status' = 0
          /\ uncaught' = "none"
          /\ out' = out \o <<Line("goodbye")>>
          /\ calls' = calls
          /\ displays' = displays]_vars

C7_Witness ==
    /\ pc = "terminated"
    /\ line = <<" ", "q", "\t", " ">>
    /\ LastLine = "goodbye"
    /\ exit_status = 0

\* ---- C8 ----------------------------------------------------------------
\* C8: an empty or whitespace-only keyword prints the validation line and
\* the keyword prompt again; nothing is fetched, displayed or asked, and the
\* language binding stays.
C8_EmptyKeyword ==
    [][Answered("main_loop") /\ line' \in {<< >>, <<" ", "\t">>} =>
          /\ pc' = "main_loop"
          /\ out' = out \o <<Line("invalid_keyword"), Line("separator"),
                             Line("keyword_prompt")>>
          /\ calls' = calls
          /\ displays' = displays
          /\ lang' = lang
          /\ is_rtl' = is_rtl]_vars

C8_Witness ==
    /\ pc = "main_loop"
    /\ line = <<" ", "\t">>
    /\ LastLine = "keyword_prompt"
    /\ Printed("invalid_keyword") = 1
    /\ lang = "he"

\* ---- C9 ----------------------------------------------------------------
\* The entries of the loaded table whose key is the line, trimmed
KeyOf(l) == {i \in 1..Len(languages) :
                l \in {languages[i].key, <<" ">> \o languages[i].key \o <<"\t", " ">>}}

\* C9: a language selection returns on a blank line, binding ("en", not
\* RTL) whatever the table holds, and on a line that (trimmed) is a key of
\* the loaded table, binding the code and the flag of that entry; on any
\* other line it prints the error line and the prompt again and changes
\* nothing else.
C9_LanguageChoice ==
    [][Answered("select_language") \/ Answered("change_language") =>
          IF line' \in {<< >>, <<" ", "\t">>}
          THEN pc' = "main_loop" /\ lang' = "en" /\ is_rtl' = FALSE
          ELSE IF KeyOf(line') # {}
          THEN /\ pc' = "main_loop"
               /\ \E i \in KeyOf(line') :
                     lang' = languages[i].code /\ is_rtl' = languages[i].rtl
          ELSE /\ out' = out \o <<Line("invalid_choice"), Line("choice_prompt")>>
               /\ UNCHANGED <<pc, lang, is_rtl, languages, keyword, file, calls,
                              displays, exit_status, uncaught, writes>>]_vars

\* Key "3" of a table without English was chosen after English had been
\* bound by a blank line
C9_Witness ==
    /\ pc = "main_loop"
    /\ languages = OtherTable
    /\ line = s_3
    /\ lang = "fr"
    /\ ~is_rtl
    /\ Printed("language_set") = 1
    /\ Printed("language_changed") = 1

\* ---- C10 ---------------------------------------------------------------
\* C10: the bound language code and right-to-left flag change only in a
\* step that completes a language selection.
C10_SessionFrame ==
    [][lang' # lang \/ is_rtl' # is_rtl =>
          /\ Answered("select_language") \/ Answered("change_language")
          /\ pc' = "main_loop"]_vars

\* A Hebrew binding has outlived a failed fetch, its display and a
\* continue answer
C10_Witness ==
    /\ pc = "main_loop"
    /\ lang = "he"
    /\ is_rtl
    /\ Len(displays) = 1
    /\ Printed("timed_out") = 1
    /\ LastLine = "keyword_prompt"

\* ---- C11 ---------------------------------------------------------------
\* The lines typed in this model that are "lang" once trimmed and
\* case-folded
LangLines == {s_lang, <<"L", "A", "N", "G">>, <<" ", "l", "a", "n", "g", "\t", " ">>}

\* The step starts a language selection: main() starts, or 'lang' is read
LoadsConfig == pc = "start" \/ (Answered("main_loop") /\ line' \in LangLines)

\* C11: a load that finds no file leaves the document of the two-entry
\* default table behind and returns that table (key 1 English not RTL, key
\* 2 Hebrew RTL); a load of a file nobody changed since the load before it
\* returns the same table again and leaves the file as it is.
C11_ConfigRoundTrip ==
    [][/\ LoadsConfig /\ file = FileAbsent =>
             /\ file' = File("json", DefaultDocument)
             /\ languages' = <<Entry(<<"1">>, "en", "English", FALSE),
                               Entry(<<"2">>, "he", "Hebrew", TRUE)>>
             /\ uncaught' = "none"
       /\ LoadsConfig /\ pc = "main_loop" /\ ~edited =>
             /\ languages' = languages
             /\ file' = file
             /\ pc' = "change_language"]_vars

\* The file written by the first load was loaded again by 'lang'
C11_Witness ==
    /\ pc = "change_language"
    /\ writes = 1
    /\ file = File("json", DefaultDocument)
    /\ languages = default_config
    /\ Printed("select_language") = 2

\* ---- C12 ---------------------------------------------------------------
\* The request succeeded with the document [k, list] for the keyword k of
\* the call and a list of suggestion strings
EchoesWithList(c) ==
    /\ c.outcome.k = "response"
    /\ c.outcome.status = 200
    /\ c.outcome.body.is_json
    /\ \E l \in SuggestionLists :
          c.outcome.body.value = JArray(<<JString(c.keyword), l>>)

\* C12: a call whose request succeeded with [k, [s1, s2, ...]] returned
\* exactly [s1, s2, ...], raised nothing and printed nothing.
C12_ReturnsTheSecondElement ==
    \A i \in 1..Len(calls) :
        calls[i].ended /\ EchoesWithList(calls[i]) =>
            /\ calls[i].exc = "none"
            /\ calls[i].val = calls[i].outcome.body.value.v[2]
            /\ Len(calls[i].val.v) = Len(calls[i].outcome.body.value.v[2].v)
            /\ calls[i].msgs = << >>

\* A list of two different strings came back in its order
C12_Witness ==
    /\ pc = "prompt_continue"
    /\ calls # << >>
    /\ calls[Len(calls)].ended
    /\ calls[Len(calls)].keyword = s_shalom
    /\ calls[Len(calls)].outcome.body =
          Body(TRUE, JArray(<<JString(s_shalom),
                              JArray(<<JString(s_shalom_olam), JString(s_cats)>>)>>))
    /\ calls[Len(calls)].val = JArray(<<JString(s_shalom_olam), JString(s_cats)>>)

\* ---- C13 ---------------------------------------------------------------
\* The language code the program last announced ("Language set to" or
\* "Language changed to")
AnnouncedCode ==
    LET ls == SelectSeq(out, LAMBDA m : m.t \in {"language_set", "language_changed"})
    IN  IF ls = << >> THEN "" ELSE ls[Len(ls)].detail

\* The right-to-left flag that goes with a code in the tables of this model
RtlOfCode(code) == code \in {"he", "ar"}

\* C13: reading 'lang' starts a language selection (or dies of a bad
\* configuration file) and fetches and displays nothing, nor does the
\* selection; every fetch is made with the code, and every display with the
\* flag, of the selection announced last.
C13_LatestBindingIsUsed ==
    [][/\ Answered("main_loop") /\ line' \in LangLines =>
             /\ calls' = calls
             /\ displays' = displays
             /\ \/ pc' = "change_language"
                \/ pc' = "terminated" /\ uncaught' # "none"
       /\ Answered("change_language") =>
             /\ calls' = calls
             /\ displays' = displays
             /\ pc' \in {"change_language", "main_loop"}
       /\ Len(calls') = Len(calls) + 1 =>
             /\ calls'[Len(calls')].lang = AnnouncedCode
             /\ calls'[Len(calls')].url.hl = AnnouncedCode
       /\ Len(displays') = Len(displays) + 1 =>
             displays'[Len(displays')].is_rtl = RtlOfCode(AnnouncedCode)]_vars

\* English was bound first, Hebrew by 'lang', and the fetch and the display
\* that followed used Hebrew
C13_Witness ==
    /\ pc = "prompt_continue"
    /\ \E i \in 1..Len(out) : out[i].t = "language_set" /\ out[i].detail = "en"
    /\ Printed("language_changed") = 1
    /\ Len(calls) = 1 /\ calls[1].lang = "he"
    /\ Len(displays) = 1 /\ displays[1].is_rtl

\* ---- C14 ---------------------------------------------------------------
\* C14: a language selection that finds the configuration file present but
\* not JSON, the first one or one started by 'lang', ends the process with
\* the uncaught JSONDecodeError and status 1, leaves the file as it is and
\* prints no farewell; a process ended that way stays ended.
C14_BadConfigIsFatal ==
    [][/\ LoadsConfig /\ file.kind = "not_json" =>
             /\ pc' = "terminated"
             /\ uncaught' = "JSONDecodeError"
             /\ exit_status' = 1
             /\ file' = file
             /\ writes' = writes
             /\ Printed("goodbye")' = 0
             /\ Printed("thanks")' = 0
             /\ Printed("choice_prompt")' = Printed("choice_prompt")
             /\ Printed("keyword_prompt")' = Printed("keyword_prompt")
       /\ uncaught = "JSONDecodeError" => pc = "terminated" /\ pc' = "terminated"]_vars

\* The file went bad in mid-session and 'lang' ended the process
C14_Witness ==
    /\ pc = "terminated"
    /\ uncaught = "JSONDecodeError"
    /\ exit_status = 1
    /\ file.kind = "not_json"
    /\ Printed("language_set") = 1
    /\ Lower(Strip(line)) = s_lang

\* ---- C15 ---------------------------------------------------------------
\* The HTTP requests sent so far
RECURSIVE SumOfRequests(_)
SumOfRequests(cs) ==
    IF cs = << >> THEN 0 ELSE Head(cs).requests + SumOfRequests(Tail(cs))

Requests == SumOfRequests(calls)

\* The keyword lines of this model that are neither blank nor a command
SearchLines == {s_cat, <<" ", "c", "a", "t", "\t", " ">>, s_shalom}

\* C15: one request is sent when a keyword that is neither blank nor a
\* command is read and none at any other step, so the requests sent are as
\* many as such keywords; a call that has ended has sent one request,
\* whatever the outcome.
C15_OneRequestPerKeyword ==
    [][/\ Requests' = Requests + (IF Answered("main_loop") /\ line' \in SearchLines
                                  THEN 1 ELSE 0)
       /\ Requests = Printed("fetching")
       /\ \A i \in 1..Len(calls') :
             calls'[i].ended => calls'[i].requests = 1]_vars

\* A fetch timed out, the loop went on, and one request had been sent
C15_Witness ==
    /\ pc = "prompt_continue"
    /\ Len(calls) = 1
    /\ calls[1].ended
    /\ calls[1].outcome = Raises("ReadTimeout")
    /\ Requests = 1
    /\ Printed("keyword_prompt") = 1

\* ---- C16 ---------------------------------------------------------------
\* The lines display_suggestions can print
DisplayLines == {"header", "rule", "suggestion", "count", "no_suggestions"}

\* A list of strings
IsListOfStrings(value) ==
    /\ value.t = "array"
    /\ \A i \in 1..Len(value.v) : value.v[i].t = "string"

\* C16: the step that displays a list of n strings prints the header and
\* its rule, then for n >= 1 the n suggestions in the order of the list,
\* numbered 1..n, and the count n, and for n = 0 the 'no suggestions' line
\* and nothing else.
C16_DisplayEnumeratesTheList ==
    [][Len(displays') = Len(displays) + 1
         /\ IsListOfStrings(displays'[Len(displays')].suggestions) =>
          LET d == displays'[Len(displays')]
              n == Len(d.suggestions.v)
              shown == SelectSeq(SubSeq(out', Len(out) + 1, Len(out')),
                                 LAMBDA m : m.t \in DisplayLines)
          IN  /\ Len(shown) = (IF n = 0 THEN 3 ELSE n + 3)
              /\ shown[1].t = "header"
              /\ shown[2].t = "rule"
              /\ n = 0 => shown[3].t = "no_suggestions"
              /\ n >= 1 =>
                    /\ \A i \in 1..n :
                          /\ shown[2 + i].t = "suggestion"
                          /\ shown[2 + i].n = i
                          /\ Len(shown[2 + i].text) = Len(d.suggestions.v[i].v)
                          /\ ~d.is_rtl => shown[2 + i].text = d.suggestions.v[i].v
                    /\ shown[n + 3].t = "count"
                    /\ shown[n + 3].n = n]_vars

\* Two suggestions were displayed, numbered 1 and 2 and counted
C16_Witness ==
    /\ pc = "prompt_continue"
    /\ displays # << >>
    /\ displays[Len(displays)].suggestions =
          JArray(<<JString(s_shalom_olam), JString(s_cats)>>)
    /\ ~displays[Len(displays)].is_rtl
    /\ \E i \in 1..Len(out) :
          /\ i + 2 <= Len(out)
          /\ out[i] = Msg("suggestion", s_shalom_olam, 1, "")
          /\ out[i + 1] = Msg("suggestion", s_cats, 2, "")
          /\ out[i + 2] = Msg("count", << >>, 2, "")

\* ---- C17 ---------------------------------------------------------------
\* C17 as stated: in no run is the file written more than once.
C17_WrittenAtMostOnce == writes <= 1

\* Somebody other than the program changes the file
ExternalEdit == ~edited /\ edited' /\ pc' = pc /\ out' = out /\ stdin' = stdin

\* C17: every language selection reads the file as it is then: a file that
\* is present and parses gives the table it holds and is neither changed
\* nor written; the file is written, once and with the defaults, exactly by
\* a selection that finds it absent, and a selection started by 'lang'
\* finds it absent only after somebody else changed it; the program never
\* removes the file.
C17_WrittenOnlyWhenAbsent ==
    [][/\ LoadsConfig /\ file = File("json", DefaultDocument) =>
             /\ languages' = <<Entry(<<"1">>, "en", "English", FALSE),
                               Entry(<<"2">>, "he", "Hebrew", TRUE)>>
             /\ file' = file /\ writes' = writes
       /\ LoadsConfig /\ file = File("json", OtherDocument) =>
             /\ languages' = <<Entry(<<"1">>, "ar", "Arabic", TRUE),
                               Entry(<<"2">>, "he", "Hebrew", TRUE),
                               Entry(<<"3">>, "fr", "French", FALSE)>>
             /\ file' = file /\ writes' = writes
       /\ LoadsConfig /\ file = FileAbsent =>
             /\ writes' = writes + 1
             /\ file' = File("json", DefaultDocument)
       /\ writes' # writes => LoadsConfig /\ file = FileAbsent
       /\ writes' # writes /\ pc = "main_loop" => edited
       /\ file' # file => (LoadsConfig /\ file = FileAbsent) \/ ExternalEdit
       /\ file' = FileAbsent /\ file # FileAbsent => ExternalEdit]_vars

\* The file was absent at the first selection, which wrote it, was removed
\* by somebody else, and was written again by the selection 'lang' started
C17_Witness ==
    /\ pc = "change_language"
    /\ Printed("language_set") = 1
    /\ Printed("select_language") = 2
    /\ file = File("json", DefaultDocument)
    /\ languages = default_config
    /\ writes = 2

\* ---- C18 ---------------------------------------------------------------
\* Standard input is the file of the three lines "2", shalom, "n", and the
\* table read is the default one
OnHebrewScript ==
    /\ ~stdin.tty
    /\ stdin.script = <<<<"2">>,
                        <<"he_shin", "he_lamed", "he_vav", "he_finalmem">>,
                        <<"n">>>>
    /\ languages = <<Entry(<<"1">>, "en", "English", FALSE),
                     Entry(<<"2">>, "he", "Hebrew", TRUE)>>

\* shalom and shalom olam as a left-to-right terminal has to be given them
ShalomDisplayed == <<"he_finalmem", "he_vav", "he_lamed", "he_shin">>

ShalomOlamDisplayed ==
    <<"he_finalmem", "he_lamed", "he_vav", "he_ayin", " ",
      "he_finalmem", "he_vav", "he_lamed", "he_shin">>

\* The fetcher returned the list of the one suggestion shalom olam
ReturnedOneSuggestion(c) ==
    c.ended /\ c.exc = "none" /\ c.val = JArray(<<JString(s_shalom_olam)>>)

\* C18: on ["2", shalom, "n"] with the default table, "2" binds ("he",
\* RTL); the only fetch is of shalom with lang "he"; when it returns one
\* suggestion, the header shows the keyword and the single numbered line
\* the suggestion, both in display order; and "n" ends the program with
\* the thank-you line and status 0.
C18_HebrewScriptEndToEnd ==
    OnHebrewScript =>
        /\ stdin.pos >= 1 =>
              /\ lang = "he" /\ is_rtl
              /\ \E i \in 1..Len(out) :
                    out[i] = Msg("language_set", << >>, 0, "he")
        /\ Len(calls) = (IF stdin.pos >= 2 THEN 1 ELSE 0)
        /\ \A i \in 1..Len(calls) :
              /\ calls[i].keyword = s_shalom
              /\ calls[i].lang = "he"
              /\ calls[i].url.hl = "he"
              /\ calls[i].requests = 1
              /\ ReturnedOneSuggestion(calls[i]) =>
                    /\ Len(displays) = 1
                    /\ displays[1].is_rtl
                    /\ Printed("header") = 1
                    /\ \E j \in 1..Len(out) :
                          out[j] = Msg("header", ShalomDisplayed, 0, "")
                    /\ SuggestionTexts = <<ShalomOlamDisplayed>>
                    /\ Printed("count") = 1
                    /\ pc \in {"prompt_continue", "terminated"}
        /\ stdin.pos = 3 =>
              /\ pc = "terminated"
              /\ LastLine = "thanks"
              /\ exit_status = 0
              /\ uncaught = "none"
              /\ line = s_n

\* The script ran to its end with one suggestion returned
C18_Witness ==
    /\ OnHebrewScript
    /\ stdin.pos = 3
    /\ pc = "terminated"
    /\ LastLine = "thanks"
    /\ Len(calls) = 1
    /\ ReturnedOneSuggestion(calls[1])
    /\ SuggestionTexts = <<ShalomOlamDisplayed>>

\* ---- C19 ---------------------------------------------------------------
\* s is the word w in some letter case
InSomeCase(s, w) ==
    /\ Len(s) = Len(w)
    /\ \A i \in 1..Len(w) : s[i] = w[i] \/ <<s[i], w[i]>> \in UpperLower

CommandWords == {<<"q", "u", "i", "t">>, <<"e", "x", "i", "t">>, <<"q">>,
                 <<"l", "a", "n", "g">>}

\* C19: the keyword of every fetch is not empty, neither begins nor ends
\* with white space and is no command word in any letter case, and it is
\* the line read at the keyword prompt without its leading and trailing
\* white space.
C19_KeywordIsATrimmedSearchTerm ==
    [][/\ \A i \in 1..Len(calls') :
             LET k == calls'[i].keyword
             IN  /\ k # << >>
                 /\ k[1] \notin {" ", "\t"}
                 /\ k[Len(k)] \notin {" ", "\t"}
                 /\ \A w \in CommandWords : ~InSomeCase(k, w)
       /\ Len(calls') = Len(calls) + 1 =>
             /\ Answered("main_loop")
             /\ line' \in SearchLines
             /\ calls'[Len(calls')].keyword =
                   (IF line' = <<"he_shin", "he_lamed", "he_vav", "he_finalmem">>
                    THEN line' ELSE <<"c", "a", "t">>)
       /\ Answered("main_loop") /\ (\E w \in CommandWords : InSomeCase(line', w)) =>
             calls' = calls]_vars

\* " cat" followed by a tab and a blank was typed and "cat" is being fetched
C19_Witness ==
    /\ pc = "query"
    /\ line = <<" ", "c", "a", "t", "\t", " ">>
    /\ calls # << >>
    /\ calls[Len(calls)].keyword = <<"c", "a", "t">>
    /\ ~calls[Len(calls)].ended

====
